---- MODULE Spec2Model ----
(***************************************************************************)
(* Rcoil: a tree of request groups built with the Rcoil builder and run by *)
(* the ExecutionDirector, which records every request and response in the  *)
(* ExecutionContext.                                                       *)
(*                                                                         *)
(* The tree is kept as the builder keeps it: `calls` is the array of root  *)
(* groups and every group object holds its id, its requests and its        *)
(* children.  A group object is named by its position in `groups` (the     *)
(* order of creation), never by its id, so that the id lookup of the       *)
(* builder is the depth-first search the code performs.                    *)
(***************************************************************************)
EXTENDS Naturals, Sequences, FiniteSets, TLC

\* ---------------------------------------------------------------- bounds
MaxGroups == 3
MaxRequests == 2
MaxNames == 2
MaxStoreGroups == 2

\* ------------------------------------------------------------- constants
Null == 0
EmptyId == ""
RequestTypeHTTP == "http"
RequestTypeLAMBDA == "lambda"
GroupNames == <<"g1", "g2", "g3", "g4", "g5", "g6">>
RequestNames == <<"r1", "r2", "r3", "r4">>
\* what a builder call throws
NoError == <<>>
GroupExistsError(groupId) == <<"Request Group already exists", groupId>>
NoGroupError == <<"Cannot add requests without starting a group first">>
InvalidRequestError == <<"Invalid Request object">>
TypeError == <<"TypeError">>
NotARequest == [name |-> "hello", type |-> "World", inputFunc |-> FALSE]

\* Request(name) followed by one of the set* methods and, optionally, onInput
Request(name, type, inputFunc) == [name |-> name, type |-> type, inputFunc |-> inputFunc]

RequestValues ==
  { Request(RequestNames[k], t, f) : k \in 1..MaxNames, t \in {RequestTypeHTTP, RequestTypeLAMBDA}, f \in BOOLEAN }

\* as IsRequest, had addRequest taken any object
IsRequestAny(r) == TRUE

IsRequest(r) == r.type \in {RequestTypeHTTP, RequestTypeLAMBDA}

VARIABLES
  calls,                \* Rcoil.calls: the root groups, in order
  groups,               \* the group objects, in order of creation
  _tmpPositionId,       \* Rcoil._tmpPositionId: the builder's cursor
  _totalRequestGroups,  \* Rcoil._totalRequestGroups
  thrown,               \* the error the last builder call threw, NoError if none
  called,               \* the last builder call and its argument
  req,                  \* the Request object the factories and setters work on
  phase,                \* "build": the tree is being built; "ready": a director
                        \* holds it; "running": start() was called
  executionContext,     \* ExecutionDirector.executionContext
  _totalGroups,         \* ExecutionDirector._totalGroups
  _tmpGroupsCounter,    \* ExecutionDirector._tmpGroupsCounter
  _aborted,             \* ExecutionDirector._aborted
  _endCallback,         \* ExecutionDirector._endCallback
  groupPlayer,          \* state of the RequestGroupPlayer of each group
  requestPlayer,        \* state of the RequestPlayer of each request
  emitted               \* how often each event was emitted, the callback invoked
                        \* and the transport called

builderVars == <<calls, groups, _tmpPositionId, _totalRequestGroups, thrown, called, req>>
directorVars == <<_totalGroups, _tmpGroupsCounter, _aborted, _endCallback>>
runVars == <<executionContext, groupPlayer, requestPlayer, emitted>>
vars == <<calls, groups, _tmpPositionId, _totalRequestGroups, thrown, called, req, phase,
          executionContext, _totalGroups, _tmpGroupsCounter, _aborted, _endCallback,
          groupPlayer, requestPlayer, emitted>>

\* ---------------------------------------------------------------- request
\* the values an argument of a factory can be
Undefined == [type |-> "undefined"]
JsNull == [type |-> "null"]
Str(s) == [type |-> "string", string |-> s]
Num(n) == [type |-> "number", number |-> n]

\* x == null
LooseEqualsNull(x) == x \in {Undefined, JsNull}

\* x == ""
LooseEqualsEmptyString(x) == x \in {Str(""), Num(0)}

Latest == "$LATEST"

\* new Request(name)
NewRequest(name) == [type |-> "", name |-> name, settings |-> [k \in {} |-> 0], inputFunc |-> FALSE]

\* as _createLambdaRequest, had it stored the qualifier it is given
_createLambdaRequestNoDefault(r, functionArn, qualifier) ==
  [r EXCEPT !.type = RequestTypeLAMBDA,
            !.settings = [function |-> functionArn, qualifier |-> qualifier]]

_createLambdaRequest(r, functionArn, qualifier) ==
  [r EXCEPT !.type = RequestTypeLAMBDA,
            !.settings = [function |-> functionArn,
                          qualifier |-> IF \/ qualifier = Undefined
                                           \/ LooseEqualsNull(qualifier)
                                           \/ LooseEqualsEmptyString(qualifier)
                                        THEN Str(Latest) ELSE qualifier]]

setLambda(r, functionArn, qualifier) == _createLambdaRequest(r, functionArn, qualifier)

onInput(r, inputFunc) == [r EXCEPT !.inputFunc = inputFunc]

\* ---------------------------------------------------------------- builder
\* as _traverseTree, had it looked at the root groups only
_traverseTreeRootsOnly(gs, o, groupId) ==
  IF \E k \in 1..Len(o) : gs[o[k]].id = groupId
  THEN o[CHOOSE k \in 1..Len(o) : gs[o[k]].id = groupId /\ \A j \in 1..(k - 1) : gs[o[j]].id # groupId]
  ELSE Null

RECURSIVE _traverseTreeNoSiblings(_, _, _)
\* as _traverseTree, had it returned what the walk of the first group's
\* children returns, found or not
_traverseTreeNoSiblings(gs, o, groupId) ==
  IF o = <<>> THEN Null
  ELSE LET n == Head(o) IN
       IF gs[n].id = groupId THEN n
       ELSE _traverseTreeNoSiblings(gs, gs[n].children, groupId)

RECURSIVE _traverseTree(_, _, _)
\* pre-order walk over the group objects of o, first match wins
_traverseTree(gs, o, groupId) ==
  IF o = <<>> THEN Null
  ELSE LET n == Head(o) IN
       IF gs[n].id = groupId THEN n
       ELSE LET subObject == _traverseTree(gs, gs[n].children, groupId) IN
            IF subObject # Null THEN subObject
            ELSE _traverseTree(gs, Tail(o), groupId)

_findRequestGroup(gs, o, groupId) == _traverseTree(gs, o, groupId)

\* as _createEmptyRequestGroup, had it dropped the id
_createEmptyRequestGroupUnnamed(groupId) == [id |-> EmptyId, requests |-> <<>>, children |-> <<>>]

_createEmptyRequestGroup(groupId) == [id |-> groupId, requests |-> <<>>, children |-> <<>>]

RECURSIVE SumRequests(_, _)
SumRequests(gs, n) == IF n = 0 THEN 0 ELSE Len(gs[n].requests) + SumRequests(gs, n - 1)

TotalRequests == SumRequests(groups, Len(groups))

UsedIds == { groups[n].id : n \in 1..Len(groups) }

\* the first group name that is not in the tree
FreshId == GroupNames[CHOOSE k \in 1..Len(GroupNames) :
                        /\ GroupNames[k] \notin UsedIds
                        /\ \A j \in 1..(k - 1) : GroupNames[j] \in UsedIds]

\* ids the builder is called with: every id of the tree, the empty string,
\* and one id that is not in the tree
IdInputs == UsedIds \cup {EmptyId, FreshId}

startGroup(groupId) ==
  /\ phase = "build"
  /\ called' = <<"startGroup", groupId>>
  /\ Len(groups) < MaxGroups
  /\ IF _findRequestGroup(groups, calls, groupId) # Null
     THEN \* throw new Error("Request Group ... already exists")
          /\ thrown' = GroupExistsError(groupId)
          /\ UNCHANGED <<calls, groups, _tmpPositionId, _totalRequestGroups>>
     ELSE IF _tmpPositionId # EmptyId
     THEN LET p == _findRequestGroup(groups, calls, _tmpPositionId) IN
          IF p = Null
          THEN \* null.children: TypeError
               /\ thrown' = TypeError
               /\ UNCHANGED <<calls, groups, _tmpPositionId, _totalRequestGroups>>
          ELSE /\ groups' = Append([groups EXCEPT ![p].children = Append(@, Len(groups) + 1)],
                                   _createEmptyRequestGroup(groupId))
               /\ calls' = calls
               /\ _tmpPositionId' = groupId
               /\ _totalRequestGroups' = _totalRequestGroups + 1
               /\ thrown' = NoError
     ELSE /\ groups' = Append(groups, _createEmptyRequestGroup(groupId))
          /\ calls' = Append(calls, Len(groups) + 1)
          /\ _tmpPositionId' = groupId
          /\ _totalRequestGroups' = _totalRequestGroups + 1
          /\ thrown' = NoError
  /\ UNCHANGED <<req, phase, directorVars, runVars>>

\* as afterGroup, had it left the cursor alone for an id that is not in the tree
afterGroupValidating(groupId) ==
  /\ phase = "build"
  /\ called' = <<"afterGroup", groupId>>
  /\ _tmpPositionId' = IF _findRequestGroup(groups, calls, groupId) = Null
                        THEN _tmpPositionId ELSE groupId
  /\ thrown' = NoError
  /\ UNCHANGED <<calls, groups, _totalRequestGroups, req, phase, directorVars, runVars>>

afterGroup(groupId) ==
  /\ phase = "build"
  /\ called' = <<"afterGroup", groupId>>
  /\ _tmpPositionId' = groupId
  /\ thrown' = NoError
  /\ UNCHANGED <<calls, groups, _totalRequestGroups, req, phase, directorVars, runVars>>

addRequest(request) ==
  /\ phase = "build"
  /\ called' = <<"addRequest", request>>
  /\ TotalRequests < MaxRequests
  /\ IF _tmpPositionId = EmptyId
     THEN /\ thrown' = NoGroupError
          /\ UNCHANGED <<calls, groups, _tmpPositionId, _totalRequestGroups>>
     ELSE IF ~IsRequest(request)
     THEN /\ thrown' = InvalidRequestError
          /\ UNCHANGED <<calls, groups, _tmpPositionId, _totalRequestGroups>>
     ELSE LET p == _findRequestGroup(groups, calls, _tmpPositionId) IN
          IF p = Null
          THEN \* null.requests: TypeError
               /\ thrown' = TypeError
               /\ UNCHANGED <<calls, groups, _tmpPositionId, _totalRequestGroups>>
          ELSE /\ groups' = [groups EXCEPT ![p].requests = Append(@, request)]
               /\ thrown' = NoError
               /\ UNCHANGED <<calls, _tmpPositionId, _totalRequestGroups>>
  /\ UNCHANGED <<req, phase, directorVars, runVars>>

fromTheBeginning ==
  /\ phase = "build"
  /\ called' = <<"fromTheBeginning">>
  /\ _tmpPositionId' = EmptyId
  /\ thrown' = NoError
  /\ UNCHANGED <<calls, groups, _totalRequestGroups, req, phase, directorVars, runVars>>

\* as requestGroupsCount, had it counted the root groups
requestGroupsCountRoots == Len(calls)

requestGroupsCount == _totalRequestGroups


\* ------------------------------------------------------- execution context
EmptyMap == [k \in {} |-> Null]

\* what requestData and responseData return when nothing is stored (null)
NullData == [isNull |-> TRUE]

\* new ExecutionContext()
ExecutionContext ==
  [_activeGroups |-> <<>>, _activeRequests |-> <<>>, _requests |-> EmptyMap, _responses |-> EmptyMap]

HasId(o) == "id" \in DOMAIN o
HasName(o) == "name" \in DOMAIN o

RemoveAt(arr, i) == SubSeq(arr, 1, i - 1) \o SubSeq(arr, i + 1, Len(arr))

RECURSIVE SpliceById(_, _, _)
\* for (i = 0; i < arr.length; i++) if (arr[i].id == id) arr.splice(i, 1)
SpliceById(arr, i, id) ==
  IF i > Len(arr) THEN arr
  ELSE IF HasId(arr[i]) /\ arr[i].id = id THEN SpliceById(RemoveAt(arr, i), i + 1, id)
  ELSE SpliceById(arr, i + 1, id)

RECURSIVE SpliceByName(_, _, _)
\* for (i = 0; i < arr.length; i++) if (arr[i].name == name) arr.splice(i, 1)
SpliceByName(arr, i, name) ==
  IF i > Len(arr) THEN arr
  ELSE IF HasName(arr[i]) /\ arr[i].name = name THEN SpliceByName(RemoveAt(arr, i), i + 1, name)
  ELSE SpliceByName(arr, i + 1, name)

registerActiveGroup(ctx, group) ==
  [ctx EXCEPT !._activeGroups = Append(@, group)]

unregisterActiveGroup(ctx, group) ==
  [ctx EXCEPT !._activeGroups = SpliceById(@, 1, group.id)]

getActiveGroups(ctx) == ctx._activeGroups

\* the request is pushed onto _activeGroups, not onto _activeRequests
registerActiveRequest(ctx, requestConfig) ==
  [ctx EXCEPT !._activeGroups = Append(@, requestConfig)]

unregisterActiveRequests(ctx, requestConfig) ==
  [ctx EXCEPT !._activeRequests = SpliceByName(@, 1, requestConfig.name)]

getActiveRequests(ctx) == ctx._activeRequests

\* _requests and _responses are plain objects ({}): a property they do not own
\* is looked up in Object.prototype, whose members are not undefined
InheritedNames == {"constructor"}
Inherited == [inherited |-> TRUE]

\* o[key] !== undefined
Defined(o, key) ==
  IF o = Inherited THEN key \in InheritedNames
  ELSE key \in DOMAIN o \/ key \in InheritedNames

\* o[key], for a key with Defined(o, key)
Get(o, key) ==
  IF o = Inherited THEN Inherited
  ELSE IF key \in DOMAIN o THEN o[key] ELSE Inherited

Lookup(map, groupId, requestName) ==
  IF Defined(map, groupId) /\ Defined(Get(map, groupId), requestName)
  THEN Get(Get(map, groupId), requestName)
  ELSE NullData

Store(map, groupId, requestName, data) ==
  LET byName == IF groupId \in DOMAIN map THEN map[groupId] ELSE EmptyMap
  IN (groupId :> ((requestName :> data) @@ byName)) @@ map

requestData(ctx, groupId, requestName) == Lookup(ctx._requests, groupId, requestName)

\* as setRequestData, had it stored nothing
setRequestDataDropped(ctx, groupId, requestName, data) == ctx

setRequestData(ctx, groupId, requestName, data) ==
  [ctx EXCEPT !._requests = Store(@, groupId, requestName, data)]

responseData(ctx, groupId, requestName) == Lookup(ctx._responses, groupId, requestName)

\* as setResponseData, had it replaced the group's records by the new one
setResponseDataReplacingGroup(ctx, groupId, requestName, data) ==
  [ctx EXCEPT !._responses = (groupId :> (requestName :> data)) @@ @]

setResponseData(ctx, groupId, requestName, data) ==
  [ctx EXCEPT !._responses = Store(@, groupId, requestName, data)]

\* ---------------------------------------------------------------- players
\* RequestGroupPlayer: Idle -> Running -> Done
\* RequestPlayer:      Idle -> Pending -> Dispatched -> Completed
\*                                     \-> (canceled) -> Completed
GroupIndexes == 1..Len(groups)
RequestKeys ==
  { k \in GroupIndexes \X (1..MaxRequests) : k[2] <= Len(groups[k[1]].requests) }

Range(seq) == { seq[k] : k \in DOMAIN seq }

\* as RequestsSettled, had the group ended once its requests were dispatched
RequestsDispatched(n) ==
  \A i \in 1..Len(groups[n].requests) : requestPlayer[<<n, i>>] # "Pending"

\* as RequestsSettled, had a group needed a request to end
RequestsSettledNonEmpty(n) ==
  /\ Len(groups[n].requests) > 0
  /\ \A i \in 1..Len(groups[n].requests) : requestPlayer[<<n, i>>] = "Completed"

\* every RequestPlayer of the group has reached Completed
RequestsSettled(n) ==
  \A i \in 1..Len(groups[n].requests) : requestPlayer[<<n, i>>] = "Completed"

\* the group whose children array holds n, Null for a root group
Parent(n) ==
  IF \E p \in GroupIndexes : n \in Range(groups[p].children)
  THEN CHOOSE p \in GroupIndexes : n \in Range(groups[p].children)
  ELSE Null

\* --------------------------------------------------------------- director
OnComplete == 1

NoEvents ==
  [groupStart   |-> [n \in GroupIndexes |-> 0],
   groupEnd     |-> [n \in GroupIndexes |-> 0],
   requestStart |-> [k \in RequestKeys |-> 0],
   requestEnd   |-> [k \in RequestKeys |-> 0],
   transport    |-> [k \in RequestKeys |-> 0],
   cancel       |-> [k \in RequestKeys |-> 0],
   abort        |-> 0,
   onComplete   |-> 0]

RECURSIVE _requestGroupStarted(_, _)
\* player.start() of every group of the array o, in order: each RequestGroupPlayer
\* emits "start", which registers the group as active
_requestGroupStarted(ctx, o) ==
  IF o = <<>> THEN ctx
  ELSE _requestGroupStarted(registerActiveGroup(ctx, groups[Head(o)]), Tail(o))

\* the players of the groups of o are running, their request players pending
PlayersStarted(gp, o) == [n \in DOMAIN gp |-> IF n \in Range(o) THEN "Running" ELSE gp[n]]
RequestPlayersStarted(rp, o) == [k \in DOMAIN rp |-> IF k[1] \in Range(o) THEN "Pending" ELSE rp[k]]
GroupStartEmitted(count, o) == [n \in DOMAIN count |-> IF n \in Range(o) THEN count[n] + 1 ELSE count[n]]

\* a response that records a failed transport call
IsFailure(response) ==
  \/ "statusCode" \in DOMAIN response /\ response.statusCode >= 400
  \/ "err" \in DOMAIN response /\ response.err # "null"

FailureRecorded(ctx) ==
  \E g \in DOMAIN ctx._responses : \E name \in DOMAIN ctx._responses[g] :
    IsFailure(ctx._responses[g][name])

\* as _isAborted, had it never stopped the run
_isAbortedNever == FALSE

\* as _isAborted, had a failed request stopped the run as abort() does
_isAbortedOrFailed == _aborted \/ FailureRecorded(executionContext)

\* as _isAborted, had the end of the last group completed the run after abort()
_isAbortedBeforeLastGroup == _aborted /\ _tmpGroupsCounter + 1 < _totalGroups

\* _isAborted: whether the run was aborted
_isAborted == _aborted

\* as AbortEventDue, had it looked at the active groups
AbortEventDueNoActiveGroup(ctx) == Len(getActiveGroups(ctx)) = 0

\* _isAborted: the abort event is emitted when no request is active
AbortEventDue(ctx) == Len(getActiveRequests(ctx)) = 0

RECURSIVE Flatten(_)
Flatten(seqs) == IF seqs = <<>> THEN <<>> ELSE Head(seqs) \o Flatten(Tail(seqs))

\* as ChildrenToStart, had it also started the children of the children
ChildrenAndGrandchildren(n) ==
  groups[n].children \o Flatten([k \in DOMAIN groups[n].children |-> groups[groups[n].children[k]].children])

\* as ChildrenToStart, had the first child alone been started
FirstChildOnly(n) == IF groups[n].children = <<>> THEN <<>> ELSE <<Head(groups[n].children)>>

\* the children started at the end of a group
ChildrenToStart(n) == groups[n].children

\* as EndCallbackDue, had it left out the count of the groups
EndCallbackAtAnyLeaf(n, counter) ==
  /\ Len(groups[n].children) = 0
  /\ _endCallback # Null

\* the test that guards the call of _endCallback
EndCallbackDue(n, counter) ==
  /\ Len(groups[n].children) = 0
  /\ counter = _totalGroups
  /\ _endCallback # Null

\* as start, had it cleared the abort flag
startClearingAbort(callback) ==
  /\ phase = "build"
  /\ phase' = "running"
  /\ thrown' = NoError
  /\ called' = <<>>
  /\ _totalGroups' = requestGroupsCount
  /\ _tmpGroupsCounter' = 0
  /\ _endCallback' = callback
  /\ executionContext' = _requestGroupStarted(executionContext, calls)
  /\ groupPlayer' = PlayersStarted([n \in GroupIndexes |-> "Idle"], calls)
  /\ requestPlayer' = RequestPlayersStarted([k \in RequestKeys |-> "Idle"], calls)
  /\ emitted' = [NoEvents EXCEPT !.groupStart = GroupStartEmitted(@, calls)]
  /\ UNCHANGED <<calls, groups, _tmpPositionId, _totalRequestGroups, req>>
  /\ _aborted' = FALSE

start(callback) ==
  /\ phase = "build"
  /\ phase' = "running"
  /\ thrown' = NoError
  /\ called' = <<>>
  /\ _totalGroups' = requestGroupsCount
  /\ _tmpGroupsCounter' = 0
  /\ _endCallback' = callback
  /\ executionContext' = _requestGroupStarted(executionContext, calls)
  /\ groupPlayer' = PlayersStarted([n \in GroupIndexes |-> "Idle"], calls)
  /\ requestPlayer' = RequestPlayersStarted([k \in RequestKeys |-> "Idle"], calls)
  /\ emitted' = [NoEvents EXCEPT !.groupStart = GroupStartEmitted(@, calls)]
  /\ UNCHANGED <<calls, groups, _tmpPositionId, _totalRequestGroups, req, _aborted>>

\* as abort, had it dropped the requests in flight
abortInterrupting ==
  /\ _aborted' = TRUE
  /\ requestPlayer' = [k \in DOMAIN requestPlayer |->
                         IF requestPlayer[k] = "Dispatched" THEN "Completed" ELSE requestPlayer[k]]
  /\ UNCHANGED <<builderVars, phase, _totalGroups, _tmpGroupsCounter, _endCallback,
                 executionContext, groupPlayer, emitted>>

abort ==
  /\ _aborted' = TRUE
  /\ UNCHANGED <<builderVars, phase, _totalGroups, _tmpGroupsCounter, _endCallback, runVars>>

\* the http.ClientRequest the RequestPlayer creates for an HTTP request: it has
\* a method, and keeps its headers in a store of its own, written by setHeader;
\* it has no property named headers and none named url
CustomHeader == "x-custom"
ClientRequest(requestConfig) == [method |-> "GET", _headers |-> {"host"}]

setHeader(requestObject, name) == [requestObject EXCEPT !._headers = @ \cup {name}]

\* the handle once the input callback of the request, if it has one, has run
RequestObject(requestConfig) ==
  IF requestConfig.inputFunc
  THEN setHeader(ClientRequest(requestConfig), CustomHeader)
  ELSE ClientRequest(requestConfig)

\* the headers of the request the transport sends
TransportHeaders(requestConfig) == RequestObject(requestConfig)._headers

\* request[key] = requestObject[key]: a property the handle does not have is
\* undefined, and the record does not hold it
CopyProperty(request, requestObject, key) ==
  IF key \in DOMAIN requestObject THEN (key :> requestObject[key]) @@ request ELSE request

RequestRecord(requestConfig) ==
  LET request == [config |-> requestConfig, body |-> "input"]
      requestObject == RequestObject(requestConfig)
  IN IF requestConfig.type = RequestTypeHTTP
     THEN CopyProperty(CopyProperty(CopyProperty(request, requestObject, "headers"),
                                    requestObject, "url"),
                       requestObject, "method")
     ELSE request

\* as ResponseRecord, had a failed transport call been recorded as a cancellation
ResponseRecordFailedAsCanceled(requestConfig, failed) ==
  IF requestConfig.type = RequestTypeHTTP
  THEN [isCanceled |-> failed, body |-> "output", statusCode |-> IF failed THEN 500 ELSE 200]
  ELSE [isCanceled |-> failed, body |-> "output", err |-> IF failed THEN "error" ELSE "null"]

ResponseRecord(requestConfig, failed) ==
  IF requestConfig.type = RequestTypeHTTP
  THEN [isCanceled |-> FALSE, body |-> "output", statusCode |-> IF failed THEN 500 ELSE 200]
  ELSE [isCanceled |-> FALSE, body |-> "output", err |-> IF failed THEN "error" ELSE "null"]

\* as CanceledRecord, had it been built as the record of a completed request
CanceledRecordNotFlagged == [isCanceled |-> FALSE]

CanceledRecord == [isCanceled |-> TRUE]

\* the RequestPlayer got its input and calls the transport: "requestStart"
_requestStarted(n, i) ==
  LET requestConfig == groups[n].requests[i] IN
  /\ phase = "running"
  /\ requestPlayer[<<n, i>>] = "Pending"
  /\ requestPlayer' = [requestPlayer EXCEPT ![<<n, i>>] = "Dispatched"]
  /\ executionContext' =
       setRequestData(registerActiveRequest(executionContext, requestConfig),
                      groups[n].id, requestConfig.name, RequestRecord(requestConfig))
  /\ emitted' = [emitted EXCEPT !.requestStart[<<n, i>>] = @ + 1,
                                !.transport[<<n, i>>] = @ + 1]
  /\ UNCHANGED <<builderVars, phase, directorVars, groupPlayer>>

\* the transport signalled completion: "requestEnd"
_requestDone(n, i, failed) ==
  LET requestConfig == groups[n].requests[i] IN
  /\ phase = "running"
  /\ requestPlayer[<<n, i>>] = "Dispatched"
  /\ requestPlayer' = [requestPlayer EXCEPT ![<<n, i>>] = "Completed"]
  /\ executionContext' =
       setResponseData(unregisterActiveRequests(executionContext, requestConfig),
                       groups[n].id, requestConfig.name, ResponseRecord(requestConfig, failed))
  /\ emitted' = [emitted EXCEPT !.requestEnd[<<n, i>>] = @ + 1]
  /\ UNCHANGED <<builderVars, phase, directorVars, groupPlayer>>

\* the input callback returned false: "requestCancel"
_requestCanceled(n, i) ==
  LET requestConfig == groups[n].requests[i] IN
  /\ phase = "running"
  /\ requestPlayer[<<n, i>>] = "Pending"
  /\ requestConfig.inputFunc
  /\ requestPlayer' = [requestPlayer EXCEPT ![<<n, i>>] = "Completed"]
  /\ executionContext' =
       setResponseData(unregisterActiveRequests(executionContext, requestConfig),
                       groups[n].id, requestConfig.name, CanceledRecord)
  /\ emitted' = [emitted EXCEPT !.requestEnd[<<n, i>>] = @ + 1,
                                !.cancel[<<n, i>>] = @ + 1]
  /\ UNCHANGED <<builderVars, phase, directorVars, groupPlayer>>

\* every request of the group has settled: the RequestGroupPlayer emits "end"
_requestGroupDone(n) ==
  LET ctx == unregisterActiveGroup(executionContext, groups[n])
      counter == _tmpGroupsCounter + 1
      children == ChildrenToStart(n)
  IN
  /\ phase = "running"
  /\ groupPlayer[n] = "Running"
  /\ RequestsSettled(n)
  /\ _tmpGroupsCounter' = counter
  /\ IF _isAborted
     THEN /\ executionContext' = ctx
          /\ groupPlayer' = [groupPlayer EXCEPT ![n] = "Done"]
          /\ emitted' = [emitted EXCEPT !.abort = IF AbortEventDue(ctx) THEN @ + 1 ELSE @]
          /\ UNCHANGED requestPlayer
     ELSE /\ executionContext' = _requestGroupStarted(ctx, children)
          /\ groupPlayer' = PlayersStarted([groupPlayer EXCEPT ![n] = "Done"], children)
          /\ requestPlayer' = RequestPlayersStarted(requestPlayer, children)
          /\ emitted' = [emitted EXCEPT
                           !.groupEnd[n] = @ + 1,
                           !.groupStart = GroupStartEmitted(@, children),
                           !.onComplete = IF EndCallbackDue(n, counter) THEN @ + 1 ELSE @]
  /\ UNCHANGED <<builderVars, phase, _totalGroups, _aborted, _endCallback>>

\* -------------------------------------------------------------- the system
\* the requests the director is run with: two names, both types, with and
\* without an input callback
RunRequests ==
  { Request(RequestNames[1], RequestTypeHTTP, FALSE),
    Request(RequestNames[2], RequestTypeHTTP, TRUE),
    Request(RequestNames[1], RequestTypeLAMBDA, TRUE) }

Init ==
  /\ calls = <<>>
  /\ groups = <<>>
  /\ _tmpPositionId = EmptyId
  /\ _totalRequestGroups = 0
  /\ thrown = NoError
  /\ called = <<>>
  /\ req = NullData
  /\ phase = "build"
  /\ executionContext = ExecutionContext
  /\ _totalGroups = 0
  /\ _tmpGroupsCounter = 0
  /\ _aborted = FALSE
  /\ _endCallback = Null
  /\ groupPlayer = <<>>
  /\ requestPlayer = EmptyMap
  /\ emitted = NoEvents

Next ==
  \/ \E groupId \in UsedIds \cup {FreshId} : startGroup(groupId)
  \/ \E groupId \in UsedIds : afterGroup(groupId)
  \/ \E request \in RunRequests : addRequest(request)
  \/ fromTheBeginning
  \/ start(OnComplete)
  \/ abort
  \/ \E k \in RequestKeys : _requestStarted(k[1], k[2])
  \/ \E k \in RequestKeys : \E failed \in BOOLEAN : _requestDone(k[1], k[2], failed)
  \/ \E k \in RequestKeys : _requestCanceled(k[1], k[2])
  \/ \E n \in GroupIndexes : _requestGroupDone(n)

Spec == Init /\ [][Next]_vars

\* the execution context alone, called with records for every pair of a group
\* id and a request name; the names are a request name and a name every
\* object inherits
StoreGroups == { GroupNames[k] : k \in 1..MaxStoreGroups }
StoreNames == {RequestNames[1]} \cup InheritedNames
StoreData == { [body |-> "a"], [body |-> "b"] }

SetRequestData(groupId, requestName, data) ==
  /\ phase = "build"
  /\ executionContext' = setRequestData(executionContext, groupId, requestName, data)
  /\ UNCHANGED <<builderVars, phase, directorVars, groupPlayer, requestPlayer, emitted>>

SetResponseData(groupId, requestName, data) ==
  /\ phase = "build"
  /\ executionContext' = setResponseData(executionContext, groupId, requestName, data)
  /\ UNCHANGED <<builderVars, phase, directorVars, groupPlayer, requestPlayer, emitted>>

ContextNext ==
  \/ \E groupId \in StoreGroups : \E requestName \in StoreNames : \E data \in StoreData :
       SetRequestData(groupId, requestName, data)
  \/ \E groupId \in StoreGroups : \E requestName \in StoreNames : \E data \in StoreData :
       SetResponseData(groupId, requestName, data)

SpecContext == Init /\ [][ContextNext]_vars

\* a second start() on the director whose run has completed: the events of the
\* second run are counted on top of those of the first
RestartCallback == 2

\* as Restart, had start() left the counter of the completed groups as it was
RestartKeepingCounter(callback) ==
  /\ phase = "running"
  /\ \A n \in GroupIndexes : groupPlayer[n] = "Done"
  /\ emitted.onComplete = 1
  /\ _endCallback = OnComplete
  /\ _totalGroups' = requestGroupsCount
  /\ _tmpGroupsCounter' = _tmpGroupsCounter
  /\ _endCallback' = callback
  /\ executionContext' = _requestGroupStarted(executionContext, calls)
  /\ groupPlayer' = PlayersStarted([n \in GroupIndexes |-> "Idle"], calls)
  /\ requestPlayer' = RequestPlayersStarted([k \in RequestKeys |-> "Idle"], calls)
  /\ emitted' = [emitted EXCEPT !.groupStart = GroupStartEmitted(@, calls)]
  /\ UNCHANGED <<builderVars, phase, _aborted>>

Restart(callback) ==
  /\ phase = "running"
  /\ \A n \in GroupIndexes : groupPlayer[n] = "Done"
  /\ emitted.onComplete = 1
  /\ _endCallback = OnComplete
  /\ _totalGroups' = requestGroupsCount
  /\ _tmpGroupsCounter' = 0
  /\ _endCallback' = callback
  /\ executionContext' = _requestGroupStarted(executionContext, calls)
  /\ groupPlayer' = PlayersStarted([n \in GroupIndexes |-> "Idle"], calls)
  /\ requestPlayer' = RequestPlayersStarted([k \in RequestKeys |-> "Idle"], calls)
  /\ emitted' = [emitted EXCEPT !.groupStart = GroupStartEmitted(@, calls)]
  /\ UNCHANGED <<builderVars, phase, _aborted>>

\* the requests of the tree that is run twice: one without an input callback, one
\* with
RestartRequests ==
  { Request(RequestNames[1], RequestTypeHTTP, FALSE),
    Request(RequestNames[2], RequestTypeLAMBDA, TRUE) }

RestartNext ==
  \/ \E groupId \in UsedIds \cup {FreshId} : startGroup(groupId)
  \/ \E groupId \in UsedIds : afterGroup(groupId)
  \/ \E request \in RestartRequests : addRequest(request)
  \/ fromTheBeginning
  \/ start(OnComplete)
  \/ Restart(RestartCallback)
  \/ \E k \in RequestKeys : _requestStarted(k[1], k[2])
  \/ \E k \in RequestKeys : \E failed \in BOOLEAN : _requestDone(k[1], k[2], failed)
  \/ \E k \in RequestKeys : _requestCanceled(k[1], k[2])
  \/ \E n \in GroupIndexes : _requestGroupDone(n)

SpecRestart == Init /\ [][RestartNext]_vars

\* the locks of the execution context: every method takes the lock of one name,
\* for reading or for writing, and touches the collections of the context
\* inside it; getData takes none
groupsLockName == "requestGroups"
requestsLockName == "requests"
requestDataLockName == "requestData"
responseDataLockName == "responseData"
NoLock == "none"

\* what a call of a method does: the lock it holds, and the collections it reads
\* and writes while it holds it
Access(op, lock, mode, touched) == [op |-> op, lock |-> lock, mode |-> mode, touched |-> touched]

registerActiveGroupAccess ==
  Access("registerActiveGroup", groupsLockName, "write", {<<"_activeGroups", "write">>})
unregisterActiveGroupAccess ==
  Access("unregisterActiveGroup", groupsLockName, "write",
         {<<"_activeGroups", "read">>, <<"_activeGroups", "write">>})
getActiveGroupAccess ==
  Access("getActiveGroup", groupsLockName, "read", {<<"_activeGroups", "read">>})
getActiveGroupsAccess ==
  Access("getActiveGroups", groupsLockName, "read", {<<"_activeGroups", "read">>})
registerActiveRequestAccess ==
  Access("registerActiveRequest", requestsLockName, "write", {<<"_activeGroups", "write">>})
unregisterActiveRequestsAccess ==
  Access("unregisterActiveRequests", requestsLockName, "write",
         {<<"_activeRequests", "read">>, <<"_activeRequests", "write">>})
getActiveRequestAccess ==
  Access("getActiveRequest", requestsLockName, "read", {<<"_activeRequests", "read">>})
getActiveRequestsAccess ==
  Access("getActiveRequests", requestsLockName, "read", {<<"_activeRequests", "read">>})
requestDataAccess ==
  Access("requestData", requestDataLockName, "read", {<<"_requests", "read">>})
setRequestDataAccess ==
  Access("setRequestData", requestDataLockName, "write",
         {<<"_requests", "read">>, <<"_requests", "write">>})
responseDataAccess ==
  Access("responseData", responseDataLockName, "read", {<<"_responses", "read">>})
setResponseDataAccess ==
  Access("setResponseData", responseDataLockName, "write",
         {<<"_responses", "read">>, <<"_responses", "write">>})
getDataAccess ==
  Access("getData", NoLock, "none", {<<"_requests", "read">>, <<"_responses", "read">>})

\* the context called method by method; called holds the access of the last call
MaxActive == 2
LockGroups == { _createEmptyRequestGroup(GroupNames[k]) : k \in 1..2 }
LockRequests == { Request(RequestNames[k], RequestTypeHTTP, FALSE) : k \in 1..2 }
LockGroupId == GroupNames[1]

ContextCall(ctx, access) ==
  /\ phase = "build"
  /\ executionContext' = ctx
  /\ called' = access
  /\ UNCHANGED <<calls, groups, _tmpPositionId, _totalRequestGroups, thrown, req, phase,
                 directorVars, groupPlayer, requestPlayer, emitted>>

RegisterActiveGroup(group) ==
  /\ Len(executionContext._activeGroups) < MaxActive
  /\ ContextCall(registerActiveGroup(executionContext, group), registerActiveGroupAccess)

UnregisterActiveGroup(group) ==
  ContextCall(unregisterActiveGroup(executionContext, group), unregisterActiveGroupAccess)

GetActiveGroup == ContextCall(executionContext, getActiveGroupAccess)

GetActiveGroups == ContextCall(executionContext, getActiveGroupsAccess)

RegisterActiveRequest(requestConfig) ==
  /\ Len(executionContext._activeGroups) < MaxActive
  /\ ContextCall(registerActiveRequest(executionContext, requestConfig), registerActiveRequestAccess)

UnregisterActiveRequests(requestConfig) ==
  ContextCall(unregisterActiveRequests(executionContext, requestConfig), unregisterActiveRequestsAccess)

GetActiveRequest == ContextCall(executionContext, getActiveRequestAccess)

GetActiveRequests == ContextCall(executionContext, getActiveRequestsAccess)

RequestData == ContextCall(executionContext, requestDataAccess)

LockedSetRequestData(requestName, data) ==
  ContextCall(setRequestData(executionContext, LockGroupId, requestName, data), setRequestDataAccess)

ResponseData == ContextCall(executionContext, responseDataAccess)

LockedSetResponseData(requestName, data) ==
  ContextCall(setResponseData(executionContext, LockGroupId, requestName, data), setResponseDataAccess)

GetData == ContextCall(executionContext, getDataAccess)

LocksNext ==
  \/ \E group \in LockGroups : RegisterActiveGroup(group)
  \/ \E group \in LockGroups : UnregisterActiveGroup(group)
  \/ GetActiveGroup
  \/ GetActiveGroups
  \/ \E requestConfig \in LockRequests : RegisterActiveRequest(requestConfig)
  \/ \E requestConfig \in LockRequests : UnregisterActiveRequests(requestConfig)
  \/ GetActiveRequest
  \/ GetActiveRequests
  \/ RequestData
  \/ \E requestName \in StoreNames : \E data \in StoreData : LockedSetRequestData(requestName, data)
  \/ ResponseData
  \/ \E requestName \in StoreNames : \E data \in StoreData : LockedSetResponseData(requestName, data)
  \/ GetData

SpecLocks == Init /\ [][LocksNext]_vars

\* the Request factories alone: Request.lambda, and setLambda and onInput on
\* the object it made
FunctionArns == { "arn:aws:lambda:f1", "arn:aws:lambda:f2", "arn:aws:lambda:f3" }
Qualifiers == { Undefined, JsNull, Str(""), Str("dev"), Str("prod"), Str("1"), Num(1), Num(0) }
RequestRest == <<calls, groups, _tmpPositionId, _totalRequestGroups, thrown, called,
                 phase, directorVars, runVars>>

Lambda(name, functionArn, qualifier) ==
  /\ req' = setLambda(NewRequest(name), functionArn, qualifier)
  /\ UNCHANGED RequestRest

SetLambda(functionArn, qualifier) ==
  /\ req # NullData
  /\ req' = setLambda(req, functionArn, qualifier)
  /\ UNCHANGED RequestRest

OnInput ==
  /\ req # NullData
  /\ req' = onInput(req, TRUE)
  /\ UNCHANGED RequestRest

RequestNext ==
  \/ \E name \in Range(RequestNames) : \E functionArn \in FunctionArns : \E qualifier \in Qualifiers :
       Lambda(name, functionArn, qualifier)
  \/ \E functionArn \in FunctionArns : \E qualifier \in Qualifiers :
       SetLambda(functionArn, qualifier)
  \/ OnInput

SpecRequest == Init /\ [][RequestNext]_vars

\* the builder alone, called with every kind of argument: the empty id, an id
\* no group has, an object that is not a Request
BuilderNext ==
  \/ \E groupId \in IdInputs : startGroup(groupId)
  \/ \E groupId \in IdInputs : afterGroup(groupId)
  \/ \E request \in RequestValues \cup {NotARequest} : addRequest(request)
  \/ fromTheBeginning

SpecBuilder == Init /\ [][BuilderNext]_vars

\* a step of a player: an input callback returns, a transport call completes,
\* a group whose requests have all settled ends
RunStep ==
  \/ \E k \in RequestKeys : _requestStarted(k[1], k[2])
  \/ \E k \in RequestKeys : \E failed \in BOOLEAN : _requestDone(k[1], k[2], failed)
  \/ \E k \in RequestKeys : _requestCanceled(k[1], k[2])
  \/ \E n \in GroupIndexes : _requestGroupDone(n)

\* every input callback returns and every dispatched transport call completes
FairSpec == Spec /\ WF_vars(RunStep)

FairRestart == SpecRestart /\ WF_vars(RunStep)

\* ------------------------------------------------------------------ claims
Running == phase = "running"

RECURSIVE Ancestors(_)
Ancestors(n) == IF Parent(n) = Null THEN {} ELSE {Parent(n)} \cup Ancestors(Parent(n))

Descendants(n) == { m \in GroupIndexes : n \in Ancestors(m) }

RequestsOf(n) == { k \in RequestKeys : k[1] = n }

RequestOf(k) == groups[k[1]].requests[k[2]]

HasResponse(ctx, k) == responseData(ctx, groups[k[1]].id, RequestOf(k).name) # NullData

HasRequest(ctx, k) == requestData(ctx, groups[k[1]].id, RequestOf(k).name) # NullData

AllGroupsEnded == \A n \in GroupIndexes : emitted.groupEnd[n] >= 1

\* every group player is done: nothing of the run is left to do
RunFinished == Running /\ \A n \in GroupIndexes : groupPlayer[n] = "Done"

\* C1: in a run in which abort() is never called, onComplete is invoked exactly
\* once, and only after every group of the tree has emitted groupEnd.  The
\* claim as stated: it fails on the tree with no groups, whose run is finished
\* as soon as it starts and never invokes onComplete.
C1_CompletionExactlyOnce ==
  (Running /\ ~_aborted) =>
     /\ emitted.onComplete <= 1
     /\ emitted.onComplete >= 1 => AllGroupsEnded
     /\ RunFinished => emitted.onComplete = 1

\* C2: a group is started only after every request of its parent has settled
\* and the parent's groupEnd has been emitted.
C2_ChildStartsAfterParent ==
  \A n \in GroupIndexes :
    (/\ Running
     /\ Parent(n) # Null
     /\ \/ emitted.groupStart[n] > 0
        \/ groupPlayer[n] # "Idle"
        \/ \E k \in RequestsOf(n) : requestPlayer[k] # "Idle") =>
       /\ RequestsSettled(Parent(n))
       /\ emitted.groupEnd[Parent(n)] >= 1

C2_Witness ==
  \E n \in GroupIndexes :
    /\ Running /\ emitted.groupStart[n] > 0 /\ Parent(n) # Null
    /\ Len(groups[Parent(n)].requests) > 0

\* the step emits groupStart for group n
GroupStartDelivered(n) ==
  /\ phase' = "running"
  /\ emitted'.groupStart[n] > (IF Running THEN emitted.groupStart[n] ELSE 0)

\* C3: when groupStart of a group G is delivered, the context holds a response
\* record for every request of every ancestor of G, and neither a request
\* record nor a response record for any request of any descendant of G.
C3_ContextAtGroupStart ==
  [][\A n \in GroupIndexes :
       GroupStartDelivered(n) =>
         /\ \A a \in Ancestors(n) : \A k \in RequestsOf(a) : HasResponse(executionContext', k)
         /\ \A d \in Descendants(n) : \A k \in RequestsOf(d) :
              ~HasRequest(executionContext', k) /\ ~HasResponse(executionContext', k)]_vars

C3_Witness ==
  \E n \in GroupIndexes :
    /\ Running /\ emitted.groupStart[n] > 0
    /\ \E a \in Ancestors(n) : Len(groups[a].requests) > 0
    /\ \E d \in Descendants(n) : Len(groups[d].requests) > 0

\* C4: when onComplete is invoked, responseData(groupId, name) is present for
\* every request of every group of the tree.
C4_ResponsesAtCompletion ==
  (Running /\ emitted.onComplete > 0) =>
     \A k \in RequestKeys : HasResponse(executionContext, k)

C4_Witness ==
  /\ Running /\ emitted.onComplete > 0
  /\ Len(calls) >= 2
  /\ \A k \in 1..Len(calls) : Len(groups[calls[k]].requests) = 1

\* C5: when abort() is never called and every dispatched transport call
\* completes, onComplete is eventually invoked after start(onComplete), for
\* every tree, the tree with no groups included.  The claim as stated: it fails
\* on the tree with no groups.
C5_CompletionEventually ==
  (Running /\ ~_aborted) ~> (emitted.onComplete >= 1 \/ _aborted)

\* C6: a failed transport call is recorded as data and stops nothing: once a
\* failure is recorded, every request still ends, every group is still started
\* and still emits groupEnd, and onComplete still fires (unless abort() is called).
C6_FailureStopsNothing ==
  (Running /\ FailureRecorded(executionContext)) ~>
     \/ _aborted
     \/ /\ Running
        /\ \A k \in RequestKeys : emitted.requestEnd[k] = 1
        /\ \A n \in GroupIndexes : emitted.groupStart[n] = 1 /\ emitted.groupEnd[n] = 1
        /\ emitted.onComplete = 1

C6_Witness ==
  /\ Running /\ emitted.onComplete = 1
  /\ \E k \in RequestKeys :
       /\ IsFailure(responseData(executionContext, groups[k[1]].id, RequestOf(k).name))
       /\ Len(groups[k[1]].requests) = 2
       /\ Len(groups[k[1]].children) > 0

\* the step in which the input callback of request k signals cancellation
CancelSignalled(k) == Running /\ emitted'.cancel[k] > emitted.cancel[k]

\* C7: when the input callback of a request signals cancellation, no transport
\* call is made for the request, a response record with isCanceled = true is
\* stored under (groupId, requestName), and requestEnd is emitted for it.
C7_CanceledRequest ==
  /\ [][\A k \in RequestKeys :
          CancelSignalled(k) =>
            /\ responseData(executionContext', groups[k[1]].id, RequestOf(k).name).isCanceled
            /\ emitted'.requestEnd[k] = emitted.requestEnd[k] + 1
            /\ emitted'.transport[k] = 0]_vars
  /\ [](\A k \in RequestKeys : (Running /\ emitted.cancel[k] > 0) => emitted.transport[k] = 0)

C7_Witness ==
  \E k \in RequestKeys : Running /\ emitted.cancel[k] > 0 /\ emitted.requestEnd[k] = 1

C9_AbortOnlyWhenDrained ==
  [][(Running /\ emitted'.abort > emitted.abort) =>
       \A k \in RequestKeys : requestPlayer'[k] # "Dispatched"]_vars

\* C10: when abort() is called while a group is running, the abort event is
\* eventually emitted.
C10_AbortEventually ==
  (Running /\ _aborted /\ \E n \in GroupIndexes : groupPlayer[n] = "Running") ~>
     (emitted.abort >= 1)

\* abort() was called after a request had been dispatched, and the event came
C10_Witness ==
  /\ Running /\ _aborted /\ emitted.abort >= 1
  /\ \E n \in GroupIndexes : emitted.groupEnd[n] = 1
  /\ \E k \in RequestKeys : emitted.transport[k] = 1

\* C11: abort() does not interrupt the requests already dispatched: once abort()
\* has been called, every request that has been dispatched still completes,
\* has its response record stored and emits requestEnd.
C11_AbortKeepsInFlight ==
  (Running /\ _aborted) ~>
     (Running /\ \A k \in RequestKeys :
                   emitted.transport[k] = 1 =>
                     /\ requestPlayer[k] = "Completed"
                     /\ emitted.requestEnd[k] = 1
                     /\ HasResponse(executionContext, k))

\* abort() was called with a request in flight beside a request of the same
\* group that has completed
C11_Witness ==
  /\ Running /\ _aborted
  /\ \E k \in RequestKeys : \E j \in RequestKeys :
       /\ k[1] = j[1] /\ k # j
       /\ requestPlayer[k] = "Dispatched"
       /\ emitted.transport[j] = 1 /\ emitted.requestEnd[j] = 1
       /\ HasResponse(executionContext, j)

\* the number of groups reachable from the root groups
RECURSIVE TreeSize(_, _)
TreeSize(gs, o) ==
  IF o = <<>> THEN 0
  ELSE 1 + TreeSize(gs, gs[Head(o)].children) + TreeSize(gs, Tail(o))

\* C12: after any sequence of builder calls, failing ones included,
\* requestGroupsCount() is the number of startGroup calls that succeeded (one
\* group object each) and the number of groups in the tree.
C12_GroupCount ==
  /\ requestGroupsCount = Len(groups)
  /\ requestGroupsCount = TreeSize(groups, calls)

\* a builder call has just failed on a full tree that has nested groups
C12_Witness ==
  /\ thrown # NoError
  /\ requestGroupsCount = MaxGroups
  /\ Len(calls) < MaxGroups

\* C13: startGroup(id) with an id some group of the tree has, at any depth,
\* fails and leaves the tree, the cursor and the group count unchanged.
C13_DuplicateStartGroupFails ==
  [][\A groupId \in UsedIds :
       startGroup(groupId) =>
         /\ thrown' = GroupExistsError(groupId)
         /\ UNCHANGED <<calls, groups, _tmpPositionId, _totalRequestGroups>>]_vars

\* startGroup has just failed on the id of a group that is neither a root
\* group nor the group at the cursor
C13_Witness ==
  \E n \in GroupIndexes :
    /\ thrown = GroupExistsError(groups[n].id)
    /\ Parent(n) # Null
    /\ groups[n].id # _tmpPositionId

\* C14: addRequest fails whenever the cursor is empty and whenever its argument
\* is not a Request, and a failing addRequest leaves the tree, the cursor and
\* the group count unchanged.
C14_AddRequestFails ==
  [][\A request \in RequestValues \cup {NotARequest} :
       addRequest(request) =>
         /\ (_tmpPositionId = EmptyId \/ ~(request \in RequestValues)) => thrown' # NoError
         /\ thrown' # NoError =>
              UNCHANGED <<calls, groups, _tmpPositionId, _totalRequestGroups>>]_vars

\* addRequest has just failed on a tree that has groups, the cursor having been
\* moved back to the beginning
C14_Witness ==
  /\ thrown = NoGroupError
  /\ Len(groups) > 0
  /\ EmptyId \notin UsedIds

\* the last builder call was the call name(arg)
Called(name, arg) == Len(called) = 2 /\ called[1] = name /\ called[2] = arg

\* the group that has the id
GroupOfId(groupId) == CHOOSE n \in GroupIndexes : groups[n].id = groupId

\* C15: a successful startGroup(id) appends one new group with no requests and
\* no children as the last child of the group at the cursor, or as the last
\* root group when the cursor is empty, sets the cursor to id and adds one to
\* the group count; every other group keeps its id, requests and children.
C15_StartGroupAppends ==
  [][\A groupId \in IdInputs :
       (startGroup(groupId) /\ thrown' = NoError) =>
         LET new == Len(groups) + 1 IN
         /\ Len(groups') = new
         /\ groups'[new] = [id |-> groupId, requests |-> <<>>, children |-> <<>>]
         /\ _tmpPositionId' = groupId
         /\ requestGroupsCount' = requestGroupsCount + 1
         /\ IF _tmpPositionId = EmptyId
            THEN /\ calls' = Append(calls, new)
                 /\ \A n \in GroupIndexes : groups'[n] = groups[n]
            ELSE /\ calls' = calls
                 /\ \E n \in GroupIndexes : groups[n].id = _tmpPositionId
                 /\ \A n \in GroupIndexes :
                      /\ groups'[n].id = groups[n].id
                      /\ groups'[n].requests = groups[n].requests
                      /\ groups'[n].children =
                           IF n = GroupOfId(_tmpPositionId)
                           THEN Append(groups[n].children, new)
                           ELSE groups[n].children]_vars

\* startGroup has just added a second child to a group that has a request
C15_Witness ==
  /\ Len(groups) > 0
  /\ Called("startGroup", groups[Len(groups)].id)
  /\ thrown = NoError
  /\ \E p \in GroupIndexes :
       /\ Len(groups[p].children) = 2
       /\ groups[p].children[2] = Len(groups)
       /\ Len(groups[p].requests) > 0

\* the step is a startGroup(newId) that follows afterGroup(groupId) at once
StartGroupAfterGroup(groupId, newId) ==
  /\ Called("afterGroup", groupId)
  /\ newId \notin UsedIds
  /\ startGroup(newId)

\* the step adds newId as the last child of the group groupId
AddsLastChild(groupId, newId) ==
  /\ thrown' = NoError
  /\ groups'[Len(groups')].id = newId
  /\ groups'[GroupOfId(groupId)].children =
       Append(groups[GroupOfId(groupId)].children, Len(groups'))
  /\ calls' = calls

\* the step changes the cursor only
OnlyCursorMoves(groupId) ==
  /\ _tmpPositionId' = groupId
  /\ thrown' = NoError
  /\ UNCHANGED <<calls, groups, _totalRequestGroups>>

\* C16: afterGroup(id) for an id of the tree changes only the cursor, and a
\* startGroup(newId) that follows it at once adds newId as the last child of
\* id, after the children id already has.  The claim as stated: it fails for
\* the group whose id is the empty string, which startGroup accepts.
C16_AfterGroupThenStartGroup ==
  [][\A groupId \in UsedIds :
       /\ afterGroup(groupId) => OnlyCursorMoves(groupId)
       /\ \A newId \in IdInputs :
            StartGroupAfterGroup(groupId, newId) => AddsLastChild(groupId, newId)]_vars

\* the same for every id but the empty string
AfterGroupThenStartGroupNonEmpty ==
  [][\A groupId \in UsedIds \ {EmptyId} :
       /\ afterGroup(groupId) => OnlyCursorMoves(groupId)
       /\ \A newId \in IdInputs :
            StartGroupAfterGroup(groupId, newId) => AddsLastChild(groupId, newId)]_vars

\* C17: active requests are tracked in their own set: a request is in
\* getActiveRequests() from registerActiveRequest until unregisterActiveRequests,
\* and getActiveGroups() holds groups only, whatever requests are registered.
\* The claim as stated: it fails, a registered request is put among the active
\* groups and is never in the active requests.
C17_ActiveRequestsTracked ==
  Running =>
    /\ \A k \in RequestKeys :
         requestPlayer[k] = "Dispatched" =>
           RequestOf(k) \in Range(getActiveRequests(executionContext))
    /\ \A group \in Range(getActiveGroups(executionContext)) : HasId(group)

\* what the context returns for every pair of the group ids and the names
Records(ctx, names) ==
  [pair \in StoreGroups \X names |->
     <<requestData(ctx, pair[1], pair[2]), responseData(ctx, pair[1], pair[2])>>]

\* the step stores data for the pair and changes what is returned for no other
\* pair of the group ids and the names
StoresForPairOnly(names) ==
  \A groupId \in StoreGroups : \A requestName \in names : \A data \in StoreData :
    /\ SetRequestData(groupId, requestName, data) =>
         Records(executionContext', names) =
           [Records(executionContext, names) EXCEPT ![<<groupId, requestName>>][1] = data]
    /\ SetResponseData(groupId, requestName, data) =>
         Records(executionContext', names) =
           [Records(executionContext, names) EXCEPT ![<<groupId, requestName>>][2] = data]

\* C18: after any sequence of setRequestData and setResponseData calls,
\* requestData(g, n) and responseData(g, n) return the record stored last for
\* the pair (g, n), and null when none was stored: nothing is returned for a
\* new context, and a call changes what is returned for its own pair only.
\* The claim as stated: it fails for a name every object inherits.
C18_DataKeyedByPair ==
  /\ Records(executionContext, StoreNames) = [pair \in StoreGroups \X StoreNames |-> <<NullData, NullData>>]
  /\ [][StoresForPairOnly(StoreNames)]_vars

\* the same for the names no object inherits
DataKeyedByPairOwnNames ==
  /\ Records(executionContext, StoreNames \ InheritedNames) =
       [pair \in StoreGroups \X (StoreNames \ InheritedNames) |-> <<NullData, NullData>>]
  /\ [][StoresForPairOnly(StoreNames \ InheritedNames)]_vars

\* C19: a header the input callback of an HTTP request adds to the outgoing
\* request handle is among the headers of the request the transport sends and
\* among the headers stored in the request record.  The claim as stated: it
\* fails, the request record holds no headers.
C19_CustomHeader ==
  Running =>
    \A k \in RequestKeys :
      (/\ emitted.transport[k] = 1
       /\ RequestOf(k).type = RequestTypeHTTP
       /\ RequestOf(k).inputFunc
       /\ \A j \in RequestsOf(k[1]) \ {k} : RequestOf(j).name # RequestOf(k).name) =>
         LET request == requestData(executionContext, groups[k[1]].id, RequestOf(k).name) IN
         /\ CustomHeader \in TransportHeaders(RequestOf(k))
         /\ "headers" \in DOMAIN request
         /\ CustomHeader \in request.headers

\* the half of it that is about the transport
CustomHeaderSent ==
  Running =>
    \A k \in RequestKeys :
      (emitted.transport[k] = 1 /\ RequestOf(k).type = RequestTypeHTTP /\ RequestOf(k).inputFunc) =>
        CustomHeader \in TransportHeaders(RequestOf(k))

\* what the claim takes for an omitted, null or empty qualifier, and for a
\* qualifier that is a value: a string that is not empty, a version number
EmptyQualifiers == { Undefined, JsNull, Str("") }
ValueQualifiers == { Str("dev"), Str("prod"), Str("1"), Num(1) }

\* C20: the invocation factory stores the qualifier it is given when that is a
\* non-empty value, stores "$LATEST" when the qualifier is omitted, null or the
\* empty string, and stores the function identifier unchanged in every case.
C20_LambdaQualifier ==
  [][\A name \in Range(RequestNames) : \A functionArn \in FunctionArns :
       \A qualifier \in EmptyQualifiers \cup ValueQualifiers :
         (Lambda(name, functionArn, qualifier) \/ SetLambda(functionArn, qualifier)) =>
           /\ req'.settings.function = functionArn
           /\ qualifier \in ValueQualifiers => req'.settings.qualifier = qualifier
           /\ qualifier \in EmptyQualifiers => req'.settings.qualifier = Str(Latest)]_vars

\* an invocation request made with an omitted, null or empty qualifier, which
\* then got an input callback
C20_Witness ==
  /\ req # NullData
  /\ req.type = RequestTypeLAMBDA
  /\ req.settings.qualifier = Str(Latest)
  /\ req.settings.function \in FunctionArns
  /\ req.inputFunc

\* C21: after any sequence of builder calls, the ids of the groups of the tree
\* are pairwise distinct.
C21_DistinctIds ==
  \A n \in GroupIndexes : \A m \in GroupIndexes :
    n # m => groups[n].id # groups[m].id

\* a full tree with two root groups, one of which has a child, on which a
\* builder call has been made since the last group was created
C21_Witness ==
  /\ Len(groups) = MaxGroups
  /\ TreeSize(groups, calls) = MaxGroups
  /\ Len(calls) = 2
  /\ ~Called("startGroup", groups[Len(groups)].id)

\* the groups whose groupStart has been emitted and whose end has not been
\* processed
StartedNotEnded == { n \in GroupIndexes : groupPlayer[n] = "Running" }

\* the entries of the active groups that are groups
ActiveGroupIds(ctx) == { group.id : group \in { e \in Range(getActiveGroups(ctx)) : HasId(e) } }

\* C22: at every moment of a run the active groups of the context are exactly
\* the groups whose groupStart has been emitted and whose end has not been
\* processed, and nothing else; they are empty once the run has completed.
\* The claim as stated: it fails, the active groups hold the requests that
\* were dispatched as well, and keep them.
C22_ActiveGroups ==
  Running =>
    /\ \A e \in Range(getActiveGroups(executionContext)) : HasId(e)
    /\ ActiveGroupIds(executionContext) = { groups[n].id : n \in StartedNotEnded }
    /\ emitted.onComplete >= 1 => getActiveGroups(executionContext) = <<>>

\* the same for the entries that are groups
ActiveGroupsAmongEntries ==
  Running => ActiveGroupIds(executionContext) = { groups[n].id : n \in StartedNotEnded }

NoAbort == Running /\ ~_aborted

StartedAndEndedOnce ==
  \A n \in GroupIndexes : emitted.groupStart[n] = 1 /\ emitted.groupEnd[n] = 1

\* C23: within one run a group is started at most once; in a run in which abort()
\* is never called, every group comes to be started exactly once and ended exactly
\* once.
C23_StartedOnce ==
  /\ [](Running => \A n \in GroupIndexes : emitted.groupStart[n] <= 1 /\ emitted.groupEnd[n] <= 1)
  /\ (NoAbort ~> (_aborted \/ (Running /\ StartedAndEndedOnce)))

C23_Witness ==
  /\ NoAbort
  /\ Len(groups) = MaxGroups
  /\ \E n \in GroupIndexes : Len(groups[n].children) = 2
  /\ StartedAndEndedOnce
  /\ emitted.onComplete = 1

\* the step is the group-end of group n
GroupEnds(n) ==
  /\ Running
  /\ groupPlayer[n] = "Running"
  /\ groupPlayer'[n] = "Done"
  /\ _tmpGroupsCounter' = _tmpGroupsCounter + 1

\* C24: at the group-end of a group that has a child the counter of the completed
\* groups, once incremented, is below totalGroups; it reaches totalGroups only at
\* the group-end of a leaf, and it never exceeds totalGroups.
C24_CounterBelowTotal ==
  [][ /\ \A n \in GroupIndexes :
           GroupEnds(n) =>
             /\ Len(groups[n].children) > 0 => _tmpGroupsCounter' < _totalGroups'
             /\ _tmpGroupsCounter' = _totalGroups' => Len(groups[n].children) = 0
      /\ (_tmpGroupsCounter' = _totalGroups' /\ _tmpGroupsCounter # _totalGroups /\ Running)
           => \E n \in GroupIndexes : GroupEnds(n) /\ Len(groups[n].children) = 0
      /\ _tmpGroupsCounter' <= _totalGroups' ]_vars

C24_Witness ==
  /\ Running
  /\ _totalGroups = MaxGroups
  /\ _tmpGroupsCounter = _totalGroups
  /\ \E n \in GroupIndexes : Len(groups[n].children) = 2 /\ groupPlayer[n] = "Done"

\* the step emits the event of the given kind for the key (a group, or a request
\* of a group)
Emits(kind, key) == Running /\ emitted'[kind][key] > emitted[kind][key]

\* C25: the groupStart of a group precedes the requestStart of each of its
\* requests, and its groupEnd follows the requestEnd of every one of its requests,
\* dispatched or canceled.
C25_GroupAroundRequests ==
  [][ /\ \A k \in RequestKeys :
           Emits("requestStart", k) => emitted.groupStart[k[1]] >= 1 /\ emitted.groupEnd[k[1]] = 0
      /\ \A k \in RequestKeys :
           Emits("requestEnd", k) => emitted.groupStart[k[1]] >= 1 /\ emitted.groupEnd[k[1]] = 0
      /\ \A n \in GroupIndexes :
           Emits("groupEnd", n) =>
             /\ emitted.groupStart[n] >= 1
             /\ \A k \in RequestKeys : k[1] = n => emitted.requestEnd[k] >= 1 ]_vars

C25_Witness ==
  /\ Running
  /\ \E n \in GroupIndexes :
       /\ Len(groups[n].requests) = 2
       /\ emitted.groupEnd[n] = 1
       /\ emitted.requestStart[<<n, 1>>] = 1
       /\ emitted.cancel[<<n, 2>>] = 1
       /\ \A i \in 1..2 : emitted.requestEnd[<<n, i>>] = 1

\* C26: when requestStart is delivered for a request of a group, requestData of the
\* group id and the request name is present; when requestEnd is delivered,
\* responseData of them is present; and for a dispatched request requestStart
\* precedes requestEnd.
C26_DataBeforeEvent ==
  [][ \A k \in RequestKeys :
        /\ Emits("requestStart", k) => HasRequest(executionContext', k) /\ emitted.requestEnd[k] = 0
        /\ Emits("requestEnd", k) => HasResponse(executionContext', k)
        /\ (Emits("requestEnd", k) /\ ~Emits("cancel", k)) =>
             emitted.requestStart[k] >= 1 /\ HasRequest(executionContext, k) ]_vars

C26_Witness ==
  /\ Running
  /\ \E k \in RequestKeys :
       /\ emitted.requestStart[k] = 1
       /\ emitted.requestEnd[k] = 1
       /\ emitted.cancel[k] = 0
       /\ HasRequest(executionContext, k)
       /\ HasResponse(executionContext, k)

\* the response record stored for the request k
ResponseOf(ctx, k) == responseData(ctx, groups[k[1]].id, RequestOf(k).name)

\* no other request of the group of k has the name of k
NameUniqueInGroup(k) ==
  \A j \in RequestsOf(k[1]) : j # k => RequestOf(j).name # RequestOf(k).name

\* C27: the response record stored for a request has isCanceled = true exactly when
\* the input callback of the request signalled cancellation; a dispatched request,
\* one whose transport call failed included, gets a record with isCanceled = false.
C27_CanceledFlag ==
  [][ \A k \in RequestKeys :
        /\ Emits("requestEnd", k) =>
             /\ HasResponse(executionContext', k)
             /\ ResponseOf(executionContext', k).isCanceled <=> Emits("cancel", k)
        /\ (Running /\ NameUniqueInGroup(k) /\ HasResponse(executionContext, k)) =>
             /\ emitted.requestEnd[k] = 1
             /\ ResponseOf(executionContext, k).isCanceled <=> emitted.cancel[k] = 1
             /\ emitted.requestStart[k] = 1 => ~ResponseOf(executionContext, k).isCanceled ]_vars

C27_Witness ==
  /\ Running
  /\ \E k \in RequestKeys : \E j \in RequestKeys :
       /\ k[1] = j[1]
       /\ NameUniqueInGroup(k)
       /\ emitted.requestStart[k] = 1
       /\ HasResponse(executionContext, k)
       /\ IsFailure(ResponseOf(executionContext, k))
       /\ ~ResponseOf(executionContext, k).isCanceled
       /\ emitted.cancel[j] = 1
       /\ ResponseOf(executionContext, j).isCanceled

\* group n of the running tree owns no request
OwnsNoRequest(n) == Running /\ n \in GroupIndexes /\ Len(groups[n].requests) = 0

\* C28: a group that owns no request still emits groupStart and then groupEnd: at
\* its end its children are started and it is counted as any other group, and a
\* run that is not aborted comes to a state where every group without requests
\* has ended and has had its children started.
C28_EmptyGroupEnds ==
  /\ [][ \A n \in GroupIndexes :
           (OwnsNoRequest(n) /\ GroupEnds(n) /\ ~_aborted) =>
             /\ emitted.groupStart[n] = 1
             /\ Emits("groupEnd", n)
             /\ \A c \in Range(groups[n].children) : Emits("groupStart", c)
             /\ _tmpGroupsCounter' = _tmpGroupsCounter + 1 ]_vars
  /\ NoAbort ~>
       (_aborted \/ (Running /\ \A n \in GroupIndexes :
                       OwnsNoRequest(n) =>
                         /\ emitted.groupEnd[n] = 1
                         /\ \A c \in Range(groups[n].children) : emitted.groupStart[c] = 1))

C28_Witness ==
  /\ NoAbort
  /\ \E n \in GroupIndexes :
       /\ OwnsNoRequest(n)
       /\ Len(groups[n].children) > 0
       /\ emitted.groupEnd[n] = 1
       /\ \A c \in Range(groups[n].children) : emitted.groupStart[c] = 1
  /\ _tmpGroupsCounter = _totalGroups
  /\ emitted.onComplete = 1

\* two groups with one parent, or two root groups
SiblingGroups == { p \in GroupIndexes \X GroupIndexes : p[1] # p[2] /\ Parent(p[1]) = Parent(p[2]) }

\* two requests of one group
SiblingRequests == { p \in RequestKeys \X RequestKeys : p[1] # p[2] /\ p[1][1] = p[2][1] }

\* the step changes the player of the group n, or of a request of it
PlayerMoves(n) ==
  \/ groupPlayer'[n] # groupPlayer[n]
  \/ \E k \in RequestsOf(n) : requestPlayer'[k] # requestPlayer[k]

\* C29: sibling groups and the sibling requests of a group are unordered and
\* concurrent.  Siblings are started in one step, so they are in progress at the
\* same time; whatever the state of its sibling, a request that is pending can be
\* dispatched or canceled, a request that is dispatched can complete, and a group
\* whose requests have settled can end; and such a step of one sibling leaves the
\* other as it is.  Either of two siblings can therefore complete first.
C29_SiblingsConcurrent ==
  /\ [](Running =>
          /\ \A p \in SiblingGroups :
               /\ emitted.groupStart[p[1]] = emitted.groupStart[p[2]]
               /\ (groupPlayer[p[1]] = "Running" /\ RequestsSettled(p[1])) =>
                    ENABLED _requestGroupDone(p[1])
          /\ \A p \in SiblingRequests :
               /\ requestPlayer[p[1]] = "Idle" <=> requestPlayer[p[2]] = "Idle"
               /\ requestPlayer[p[1]] = "Pending" => ENABLED _requestStarted(p[1][1], p[1][2])
               /\ requestPlayer[p[1]] = "Dispatched" => ENABLED _requestDone(p[1][1], p[1][2], FALSE))
  /\ [][ Running =>
           /\ \A p \in SiblingGroups :
                (groupPlayer[p[1]] = "Running" /\ PlayerMoves(p[1])) => ~PlayerMoves(p[2])
           /\ \A p \in SiblingRequests :
                (requestPlayer[p[1]] # "Idle" /\ requestPlayer'[p[1]] # requestPlayer[p[1]]) =>
                  requestPlayer'[p[2]] = requestPlayer[p[2]] ]_vars

\* the later of two sibling groups has ended while the earlier one is in progress,
\* and the later of the two requests of that one has completed while the earlier
\* one is in flight
C29_Witness ==
  /\ Running
  /\ \E p \in SiblingGroups : \E q \in SiblingRequests :
       /\ p[1] < p[2]
       /\ Parent(p[1]) # Null
       /\ groupPlayer[p[1]] = "Running"
       /\ groupPlayer[p[2]] = "Done"
       /\ q[1][1] = p[1]
       /\ q[1][2] < q[2][2]
       /\ requestPlayer[q[1]] = "Dispatched"
       /\ requestPlayer[q[2]] = "Completed"

NotInTree(groupId) == _findRequestGroup(groups, calls, groupId) = Null

\* the call threw, and left the tree, the cursor and the count of the groups as
\* they were
FailsUnchanged ==
  /\ thrown' # NoError
  /\ UNCHANGED <<calls, groups, _tmpPositionId, _totalRequestGroups>>

\* afterGroup(groupId) for an id that is not in the tree succeeds and moves the
\* cursor alone; the addRequest of a Request, or the startGroup of a new id, that
\* follows it at once fails and changes nothing
DanglingCursor(groupId) ==
  NotInTree(groupId) =>
    /\ afterGroup(groupId) => OnlyCursorMoves(groupId)
    /\ Called("afterGroup", groupId) =>
         /\ \A request \in RequestValues :
              (IsRequest(request) /\ addRequest(request)) => FailsUnchanged
         /\ \A newId \in IdInputs :
              (NotInTree(newId) /\ startGroup(newId)) => FailsUnchanged

\* C30: afterGroup(id) with an id that is not in the tree succeeds, sets the cursor
\* to id and leaves the tree and the count unchanged; the addRequest of a valid
\* request or the startGroup of a new id that follows fails and leaves the tree,
\* the cursor and the count unchanged.  The claim as stated: it fails for the
\* empty string, the cursor value that stands for the root.
C30_AfterGroupUnknownId ==
  [][\A groupId \in IdInputs : DanglingCursor(groupId)]_vars

\* C30, amended: the same for every id but the empty string; after afterGroup("")
\* addRequest fails and changes nothing, and startGroup(newId) adds newId as a
\* root group.
C30_AfterGroupUnknownNonEmptyId ==
  [][ /\ \A groupId \in IdInputs \ {EmptyId} : DanglingCursor(groupId)
      /\ (NotInTree(EmptyId) /\ Called("afterGroup", EmptyId)) =>
           /\ \A request \in RequestValues : addRequest(request) => FailsUnchanged
           /\ \A newId \in IdInputs :
                (NotInTree(newId) /\ startGroup(newId)) =>
                  /\ thrown' = NoError
                  /\ calls' = Append(calls, Len(groups) + 1)
                  /\ _tmpPositionId' = newId ]_vars

C30_Witness ==
  /\ phase = "build"
  /\ Len(groups) >= 2
  /\ NotInTree(_tmpPositionId)
  /\ _tmpPositionId # EmptyId
  /\ thrown = TypeError
  /\ \E request \in RequestValues : IsRequest(request) /\ Called("addRequest", request)

\* the step appends the request as the last request of the group at the cursor
\* and changes nothing else
AppendsToCursorGroup(request) ==
  /\ thrown' = NoError
  /\ ~NotInTree(_tmpPositionId)
  /\ groups' = [groups EXCEPT ![GroupOfId(_tmpPositionId)].requests = Append(@, request)]
  /\ UNCHANGED <<calls, _tmpPositionId, _totalRequestGroups>>

\* C31: whenever the cursor is not empty and the argument is a Request,
\* addRequest succeeds and appends the request as the last request of the group at
\* the cursor; the other groups, the cursor and the count of the groups are
\* unchanged and the earlier requests keep their order.  The claim as stated: it
\* fails when the cursor holds an id that is not in the tree.
C31_AddRequestAppends ==
  [][\A request \in RequestValues :
       (_tmpPositionId # EmptyId /\ addRequest(request)) => AppendsToCursorGroup(request)]_vars

\* the same when the cursor holds the id of a group of the tree
AddRequestAppendsAtGroup ==
  [][\A request \in RequestValues :
       (_tmpPositionId # EmptyId /\ ~NotInTree(_tmpPositionId) /\ addRequest(request))
         => AppendsToCursorGroup(request)]_vars

\* the last call was a successful startGroup(groupId): the group it created is the
\* last of groups
StartGroupSucceeded(groupId) ==
  /\ Called("startGroup", groupId)
  /\ thrown = NoError
  /\ groups # <<>>
  /\ groups[Len(groups)].id = groupId

\* what follows a successful startGroup(groupId) at once attaches to the group it
\* created: the addRequest of a Request adds its last request, the startGroup of
\* another id its last child
AttachesToNewGroup(groupId) ==
  StartGroupSucceeded(groupId) =>
    /\ \A request \in RequestValues :
         addRequest(request) =>
           /\ thrown' = NoError
           /\ groups' = [groups EXCEPT ![Len(groups)].requests = Append(@, request)]
    /\ \A other \in IdInputs :
         (NotInTree(other) /\ startGroup(other)) =>
           /\ thrown' = NoError
           /\ Len(groups') = Len(groups) + 1
           /\ groups'[Len(groups)].children = Append(groups[Len(groups)].children, Len(groups'))
           /\ calls' = calls

\* C32: after every successful startGroup(id), the empty string included, an
\* addRequest of a valid request that follows at once succeeds and adds the
\* request to the group just created, and a startGroup of another id that follows
\* at once adds a child of the group just created.  The claim as stated: it fails
\* for the empty string.
C32_StartGroupMovesCursor ==
  [][\A groupId \in IdInputs : AttachesToNewGroup(groupId)]_vars

\* the same for every id but the empty string
StartGroupMovesCursorNonEmpty ==
  [][\A groupId \in IdInputs \ {EmptyId} : AttachesToNewGroup(groupId)]_vars

\* the collections of the context, and the lock that is each one's own
Collections == {"_activeGroups", "_activeRequests", "_requests", "_responses"}

OwnLock ==
  [_activeGroups |-> groupsLockName, _activeRequests |-> requestsLockName,
   _requests |-> requestDataLockName, _responses |-> responseDataLockName]

IsAccess(c) == DOMAIN c = {"op", "lock", "mode", "touched"}

\* every collection the call touched is touched under its own lock, held for
\* writing when the collection is written
UnderOwnLock(access) ==
  \A t \in access.touched :
    /\ access.lock = OwnLock[t[1]]
    /\ access.mode \in (IF t[2] = "write" THEN {"write"} ELSE {"read", "write"})

\* C33: every read and every write of each of the four collections of the context
\* is done while the lock of that collection is held, for writing when the
\* collection is changed; no method touches a collection under the lock of
\* another collection or under no lock.  The claim as stated: it fails for
\* registerActiveRequest and for getData.
C33_OwnLockHeld ==
  IsAccess(called) => UnderOwnLock(called)

\* the same for the other eleven methods
OwnLockHeldButTwo ==
  (IsAccess(called) /\ called.op \notin {"registerActiveRequest", "getData"}) => UnderOwnLock(called)

\* the collections a step changes are among those its call is recorded to write
WritesRecorded ==
  [][\A c \in Collections :
       executionContext'[c] # executionContext[c] => <<c, "write">> \in called'.touched]_vars

\* C34: in one run the abort event is emitted at most once, however many groups
\* were running when abort() was called and however many of them end afterwards.
\* The claim as stated: it fails, the event is emitted at the end of every group
\* that ends after abort().
C34_AbortOnce ==
  Running => emitted.abort <= 1

\* the abort event is emitted once for each group that ended after abort(), and
\* never without abort()
AbortAtEveryGroupEnd ==
  Running =>
    /\ emitted.abort <= Cardinality({ n \in GroupIndexes : groupPlayer[n] = "Done" /\ emitted.groupEnd[n] = 0 })
    /\ emitted.abort > 0 => _aborted

\* C35: in a single run the abort event and the onComplete callback exclude each
\* other, whether abort() is called before, during or after the last group: no
\* state of a run has both an abort event and a call of onComplete behind it.
C35_AbortOrComplete ==
  Running => ~(emitted.abort >= 1 /\ emitted.onComplete >= 1)

\* abort() was called in the middle of a run: a group had emitted groupEnd, the
\* groups that ended afterwards emitted abort, and the run is over without
\* onComplete
C35_Witness ==
  /\ RunFinished
  /\ Len(groups) = MaxGroups
  /\ \E n \in GroupIndexes : emitted.groupEnd[n] = 1
  /\ emitted.abort >= 1
  /\ emitted.onComplete = 0

\* every request of a started group has been settled and recorded: a dispatched
\* one has its request record and its response record, a canceled one its
\* response record
StartedRequestsRecorded ==
  \A k \in RequestKeys :
    emitted.groupStart[k[1]] >= 1 =>
      /\ emitted.requestEnd[k] = 1
      /\ HasResponse(executionContext, k)
      /\ emitted.cancel[k] = 0 => emitted.requestStart[k] = 1 /\ HasRequest(executionContext, k)

Restarted == Running /\ _endCallback = RestartCallback

EveryGroupTwice ==
  \A n \in GroupIndexes : emitted.groupStart[n] = 2 /\ emitted.groupEnd[n] = 2

\* C37: start() resets the counter of the completed groups: start(cb2) on the
\* director whose run has completed without abort starts every group once more
\* and calls cb2 exactly once, after every group has ended again, and does not
\* call the callback of the first run again.
C37_Restart ==
  /\ [](Running =>
          /\ emitted.onComplete <= 2
          /\ \A n \in GroupIndexes : emitted.groupStart[n] <= 2 /\ emitted.groupEnd[n] <= 2
          /\ emitted.onComplete = 2 => Restarted /\ EveryGroupTwice)
  /\ [][ (Running /\ emitted'.onComplete > emitted.onComplete /\ emitted.onComplete >= 1) =>
           /\ _endCallback = RestartCallback
           /\ \A n \in GroupIndexes : emitted'.groupEnd[n] = 2 ]_vars
  /\ Restarted ~> (Restarted /\ emitted.onComplete = 2 /\ EveryGroupTwice)

C37_Witness ==
  /\ Restarted
  /\ Len(groups) = MaxGroups
  /\ \E n \in GroupIndexes : Len(groups[n].children) > 0
  /\ \E k \in RequestKeys : emitted.requestStart[k] = 2
  /\ EveryGroupTwice
  /\ emitted.onComplete = 2

\* C38: in every state of a run, a response record with isCanceled = false has its
\* request record: the request record of a dispatched request is stored before
\* its response record; and a canceled request has a response record and no
\* request record.
C38_RequestBeforeResponse ==
  Running =>
    \A k \in RequestKeys :
      /\ (HasResponse(executionContext, k) /\ ~ResponseOf(executionContext, k).isCanceled) =>
           HasRequest(executionContext, k)
      /\ (NameUniqueInGroup(k) /\ emitted.cancel[k] = 1) =>
           /\ HasResponse(executionContext, k)
           /\ ResponseOf(executionContext, k).isCanceled
           /\ ~HasRequest(executionContext, k)

C38_Witness ==
  /\ Running
  /\ \E k \in RequestKeys : \E j \in RequestKeys :
       /\ k[1] = j[1]
       /\ NameUniqueInGroup(k)
       /\ emitted.requestStart[k] = 1
       /\ emitted.requestEnd[k] = 1
       /\ ~ResponseOf(executionContext, k).isCanceled
       /\ HasRequest(executionContext, k)
       /\ emitted.cancel[j] = 1
       /\ ResponseOf(executionContext, j).isCanceled
       /\ ~HasRequest(executionContext, j)


====
